---- MODULE Spec2Model ----
(***************************************************************************)
(* Model of the comic page (front_end/src/app/(main)/comic/page.tsx):      *)
(* the component state of ComicPage, the session held by the app context,  *)
(* the generateComic calls in flight and the browser's object-URL table.   *)
(* Strings are sequences of one-character strings.  One action is one      *)
(* event handler (or one settled promise continuation) together with the   *)
(* render and the passive effect that follow it.                           *)
(*                                                                         *)
(* Left out, as nothing here reads them: the gradient pair picked for a    *)
(* new session (pickGradient, Math.random) and a page's optional title.    *)
(* generateComic, getComicExamples and the app context live outside the    *)
(* page; they are modelled from their description: the generator returns   *)
(* pages numbered 1..n whose URLs are fresh object URLs or remote URLs,    *)
(* the history is append-only, and the context's session can be cleared by *)
(* another consumer.                                                       *)
(***************************************************************************)
EXTENDS Bags, FiniteSets, Integers, Sequences, TLC

\* ------------------------------------------------------------------ bounds
MaxGenerations == 2   \* generateComic calls that are in flight or succeeded
MaxPages == 2         \* longest page sequence the generator returns

\* ------------------------------------------------------------- characters
Upper ==
  <<"A","B","C","D","E","F","G","H","I","J","K","L","M",
    "N","O","P","Q","R","S","T","U","V","W","X","Y","Z">>
Lower ==
  <<"a","b","c","d","e","f","g","h","i","j","k","l","m",
    "n","o","p","q","r","s","t","u","v","w","x","y","z">>
Digits ==
  <<"0","1","2","3","4","5","6","7","8","9">>

Range(f) == { f[i] : i \in DOMAIN f }

\* String.prototype.trim(): strip white space at both ends
IsWhiteSpace(ch) == ch \in {" ", "\n", "\t"}

RECURSIVE TrimStart(_)
TrimStart(s) ==
  IF s # <<>> /\ IsWhiteSpace(Head(s)) THEN TrimStart(Tail(s)) ELSE s

RECURSIVE TrimEnd(_)
TrimEnd(s) ==
  IF s # <<>> /\ IsWhiteSpace(s[Len(s)])
  THEN TrimEnd(SubSeq(s, 1, Len(s) - 1)) ELSE s

Trim(s) == TrimEnd(TrimStart(s))

\* the character class [a-z0-9] under the i flag
IsAlnum(ch) == ch \in Range(Lower) \cup Range(Upper) \cup Range(Digits)

\* String.prototype.toLowerCase()
ToLowerChar(ch) ==
  IF \E i \in DOMAIN Upper : Upper[i] = ch
  THEN Lower[CHOOSE i \in DOMAIN Upper : Upper[i] = ch]
  ELSE ch

ToLowerCase(s) == [ i \in 1..Len(s) |-> ToLowerChar(s[i]) ]

\* s.replace(/[^a-z0-9]+/gi, "-"): every maximal run becomes one "-"
RECURSIVE ReplaceRuns(_, _)
ReplaceRuns(s, inRun) ==
  IF s = <<>> THEN <<>>
  ELSE IF IsAlnum(Head(s)) THEN <<Head(s)>> \o ReplaceRuns(Tail(s), FALSE)
  ELSE IF inRun THEN ReplaceRuns(Tail(s), TRUE)
  ELSE <<"-">> \o ReplaceRuns(Tail(s), TRUE)

\* handleDownload: const safeName = ... || "comic"
safeName(idea) ==
  LET slug == ToLowerCase(ReplaceRuns(idea, FALSE))
  IN  IF slug = <<>> THEN <<"c","o","m","i","c">> ELSE slug

\* link.download = `${safeName}.json`
DownloadName(idea) == safeName(idea) \o <<".","j","s","o","n">>

\* ---------------------------------------------------------------- inputs
TomAndJerry == <<"T","o","m"," ","&"," ","J","e","r","r","y","!","!">>

\* getComicExamples(): a fixed ordered list of example prompts
exampleStories == << TomAndJerry >>

\* values the user types into the Textarea
TypedIdeas == { <<" ">> \o TomAndJerry \o <<" ">> }

FirstN(s, n) == SubSeq(s, 1, IF Len(s) < n THEN Len(s) ELSE n)

\* ----------------------------------------------------------------- state
VARIABLES
  storyIdea,        \* useState(""): the prompt input
  pagesRequested,   \* useState<1 | 2>(1)
  isGenerating,     \* useState(false): the busy flag
  isDialogOpen,     \* useState(false)
  activePageIndex,  \* useState(0)
  comicSession,     \* app context: the installed session, or Null
  comicHistory,     \* app context: the history log
  calls,            \* bag of handleGenerate invocations awaiting generateComic
  blobCount,        \* object URLs minted so far (blob ids 1..blobCount)
  revoked,          \* bag of blob ids: one copy per URL.revokeObjectURL call
  lastEvent         \* the handler that ran last: a settled call, a cleared
                    \* session, a navigation or an export, with what it
                    \* saw and produced; "other" for the remaining handlers

vars == <<storyIdea, pagesRequested, isGenerating, isDialogOpen,
          activePageIndex, comicSession, comicHistory, calls, blobCount,
          revoked, lastEvent>>

Null == [null |-> TRUE]

\* page.imageUrl.startsWith("blob:")
IsBlobUrl(url) == url.scheme = "blob"

\* the blob ids among a session's page URLs
BlobIds(value) ==
  IF value = Null THEN {}
  ELSE { value.pages[i].imageUrl.id :
           i \in { j \in DOMAIN value.pages : IsBlobUrl(value.pages[j].imageUrl) } }

\* releaseSessionResources: the revokeObjectURL calls it makes, as a bag
RECURSIVE RevokeEach(_)
RevokeEach(pages) ==
  IF pages = <<>> THEN EmptyBag
  ELSE (IF IsBlobUrl(Head(pages).imageUrl)
        THEN SetToBag({Head(pages).imageUrl.id}) ELSE EmptyBag)
       (+) RevokeEach(Tail(pages))

releaseSessionResources(value) ==
  IF value = Null THEN EmptyBag ELSE RevokeEach(value.pages)

Init ==
  /\ storyIdea = <<>>
  /\ pagesRequested = 1
  /\ isGenerating = FALSE
  /\ isDialogOpen = FALSE
  /\ activePageIndex = 0
  /\ comicSession = Null
  /\ comicHistory = <<>>
  /\ calls = EmptyBag
  /\ blobCount = 0
  /\ revoked = EmptyBag
  /\ lastEvent = [op |-> "other"]

\* ------------------------------------------------------- external lib/api
\* generateComic resolves with an ordered page sequence, pageNumber 1..n;
\* kinds[i] tells whether page i carries a freshly minted object URL (ids
\* base+1, base+2, ...) or a remote one; one response is all of one kind
PageKinds(n) == { [ i \in 1..n |-> k ] : k \in {"blob", "https"} }

BlobsBefore(kinds, i) == Cardinality({ j \in 1..i : kinds[j] = "blob" })

ComicPages(n, kinds, base) ==
  [ i \in 1..n |->
      [ pageNumber |-> i,
        imageUrl   |-> IF kinds[i] = "blob"
                       THEN [scheme |-> "blob", id |-> base + BlobsBefore(kinds, i)]
                       ELSE [scheme |-> "https", id |-> i] ] ]

\* Date.now(): a logical clock, one tick per session created
DateNow == Len(comicHistory) + 1

\* addToComicHistory(story): append-only log
addToComicHistory(history, story) == Append(history, story)

\* ------------------------------------------------------------ useEffect
\* useEffect(..., [comicSession, activePageIndex]), lines 103-112: what it
\* leaves in isDialogOpen and activePageIndex
\* variant: the effect without its !comicSession branch
EffectDialogOpen_StaysOpen(session, open) == open

EffectDialogOpen(session, open) ==
  IF session = Null THEN FALSE ELSE open

EffectPageIndex(session, index) ==
  IF session = Null THEN index
  ELSE IF index > Len(session.pages) - 1 THEN 0 ELSE index

\* --------------------------------------------------------------- actions
\* Textarea onChange
SetStoryIdea ==
  \E v \in TypedIdeas :
    /\ storyIdea' = v
    /\ lastEvent' = [op |-> "other"]
    /\ UNCHANGED <<pagesRequested, isGenerating, isDialogOpen, activePageIndex,
                   comicSession, comicHistory, calls, blobCount, revoked>>

\* example chips under the Textarea: setStoryIdea(story)
PickExample ==
  \E story \in Range(FirstN(exampleStories, 3)) :
    /\ storyIdea' = story
    /\ lastEvent' = [op |-> "other"]
    /\ UNCHANGED <<pagesRequested, isGenerating, isDialogOpen, activePageIndex,
                   comicSession, comicHistory, calls, blobCount, revoked>>

\* page-count buttons: setPagesRequested(count)
SetPagesRequested ==
  \E count \in {1, 2} :
    /\ pagesRequested' = count
    /\ lastEvent' = [op |-> "other"]
    /\ UNCHANGED <<storyIdea, isGenerating, isDialogOpen, activePageIndex,
                   comicSession, comicHistory, calls, blobCount, revoked>>

\* variant: the prompt is passed on without trim()
handleGenerate_NoTrim(idea, count, via) ==
  LET story == idea
  IN  /\ Len(comicHistory) + BagCardinality(calls) < MaxGenerations
      /\ IF story = <<>>
         THEN /\ lastEvent' = [op |-> "other"]
              /\ UNCHANGED <<isGenerating, calls>>
         ELSE /\ isGenerating' = TRUE
              /\ calls' = calls (+) SetToBag({[ idea |-> idea, story |-> story,
                                                 count |-> count,
                                                 comicSession |-> comicSession ]})
              /\ lastEvent' = [op |-> "other"]
      /\ UNCHANGED <<storyIdea, pagesRequested, isDialogOpen, activePageIndex,
                     comicSession, comicHistory, blobCount, revoked>>

\* handleGenerate up to its await: idea and count are idea ?? storyIdea and
\* pageCount ?? pagesRequested; the continuation keeps this render's
\* comicSession in its closure
handleGenerate(idea, count, via) ==
  LET story == Trim(idea)
  IN  /\ Len(comicHistory) + BagCardinality(calls) < MaxGenerations
      /\ IF story = <<>>
         THEN /\ lastEvent' = [op |-> "other"]
              /\ UNCHANGED <<isGenerating, calls>>
         ELSE /\ isGenerating' = TRUE
              /\ calls' = calls (+) SetToBag({[ idea |-> idea, story |-> story,
                                                 count |-> count,
                                                 comicSession |-> comicSession ]})
              /\ lastEvent' = [op |-> "other"]
      /\ UNCHANGED <<storyIdea, pagesRequested, isDialogOpen, activePageIndex,
                     comicSession, comicHistory, blobCount, revoked>>

\* the "Generate comic" button: disabled={isGenerating || !storyIdea.trim()}
ClickGenerate ==
  /\ ~(isGenerating \/ Trim(storyIdea) = <<>>)
  /\ handleGenerate(storyIdea, pagesRequested, "button")

\* the quick-prompt buttons of the highlight card: handleGenerate(story)
ClickQuickPrompt ==
  \E story \in Range(FirstN(exampleStories, 2)) :
    handleGenerate(story, pagesRequested, "quick")

\* variant: the new session takes the page count selected when the call
\* settles instead of the count the call was made with
GenerateResolved_CurrentCount ==
  \E call \in BagToSet(calls), n \in 0..MaxPages :
    \E kinds \in PageKinds(n) :
      LET comic == ComicPages(n, kinds, blobCount)
          newSession == [ id |-> DateNow, storyIdea |-> call.story,
                          pagesRequested |-> pagesRequested, pages |-> comic ]
      IN  /\ calls' = calls (-) SetToBag({call})
          /\ blobCount' = blobCount + BlobsBefore(kinds, n)
          /\ revoked' = revoked (+) releaseSessionResources(call.comicSession)
          /\ comicSession' = newSession
          /\ comicHistory' = addToComicHistory(comicHistory, call.story)
          /\ storyIdea' = <<>>
          /\ activePageIndex' = EffectPageIndex(newSession, 0)
          /\ isDialogOpen' = EffectDialogOpen(newSession, isDialogOpen)
          /\ isGenerating' = FALSE
          /\ lastEvent' = [op |-> "resolved", call |-> call, comic |-> comic,
                           replaced |-> comicSession,
                           wasOpen |-> isDialogOpen,
                           wasIndex |-> activePageIndex]
          /\ UNCHANGED pagesRequested

\* variant: releaseSessionResources is handed the new session
GenerateResolved_ReleasesNew ==
  \E call \in BagToSet(calls), n \in 0..MaxPages :
    \E kinds \in PageKinds(n) :
      LET comic == ComicPages(n, kinds, blobCount)
          newSession == [ id |-> DateNow, storyIdea |-> call.story,
                          pagesRequested |-> call.count, pages |-> comic ]
      IN  /\ calls' = calls (-) SetToBag({call})
          /\ blobCount' = blobCount + BlobsBefore(kinds, n)
          /\ revoked' = revoked (+) releaseSessionResources(newSession)
          /\ comicSession' = newSession
          /\ comicHistory' = addToComicHistory(comicHistory, call.story)
          /\ storyIdea' = <<>>
          /\ activePageIndex' = EffectPageIndex(newSession, 0)
          /\ isDialogOpen' = EffectDialogOpen(newSession, isDialogOpen)
          /\ isGenerating' = FALSE
          /\ lastEvent' = [op |-> "resolved", call |-> call, comic |-> comic,
                           replaced |-> comicSession,
                           wasOpen |-> isDialogOpen,
                           wasIndex |-> activePageIndex]
          /\ UNCHANGED pagesRequested

\* variant: the new session and the history entry take the prompt input as
\* it is when the call settles
GenerateResolved_CurrentIdea ==
  \E call \in BagToSet(calls), n \in 0..MaxPages :
    \E kinds \in PageKinds(n) :
      LET comic == ComicPages(n, kinds, blobCount)
          newSession == [ id |-> DateNow, storyIdea |-> Trim(storyIdea),
                          pagesRequested |-> call.count, pages |-> comic ]
      IN  /\ calls' = calls (-) SetToBag({call})
          /\ blobCount' = blobCount + BlobsBefore(kinds, n)
          /\ revoked' = revoked (+) releaseSessionResources(call.comicSession)
          /\ comicSession' = newSession
          /\ comicHistory' = addToComicHistory(comicHistory, Trim(storyIdea))
          /\ storyIdea' = <<>>
          /\ activePageIndex' = EffectPageIndex(newSession, 0)
          /\ isDialogOpen' = EffectDialogOpen(newSession, isDialogOpen)
          /\ isGenerating' = FALSE
          /\ lastEvent' = [op |-> "resolved", call |-> call, comic |-> comic,
                           replaced |-> comicSession,
                           wasOpen |-> isDialogOpen,
                           wasIndex |-> activePageIndex]
          /\ UNCHANGED pagesRequested

\* generateComic resolved: the rest of the try block, then finally
GenerateResolved ==
  \E call \in BagToSet(calls), n \in 0..MaxPages :
    \E kinds \in PageKinds(n) :
      LET comic == ComicPages(n, kinds, blobCount)
          newSession == [ id |-> DateNow, storyIdea |-> call.story,
                          pagesRequested |-> call.count, pages |-> comic ]
      IN  /\ calls' = calls (-) SetToBag({call})
          /\ blobCount' = blobCount + BlobsBefore(kinds, n)
          /\ revoked' = revoked (+) releaseSessionResources(call.comicSession)
          /\ comicSession' = newSession
          /\ comicHistory' = addToComicHistory(comicHistory, call.story)
          /\ storyIdea' = <<>>
          /\ activePageIndex' = EffectPageIndex(newSession, 0)
          /\ isDialogOpen' = EffectDialogOpen(newSession, isDialogOpen)
          /\ isGenerating' = FALSE
          /\ lastEvent' = [op |-> "resolved", call |-> call, comic |-> comic,
                           replaced |-> comicSession,
                           wasOpen |-> isDialogOpen,
                           wasIndex |-> activePageIndex]
          /\ UNCHANGED pagesRequested

\* variant: the failure path also clears the prompt input
GenerateRejected_ClearsInput ==
  \E call \in BagToSet(calls) :
    /\ calls' = calls (-) SetToBag({call})
    /\ isGenerating' = FALSE
    /\ storyIdea' = <<>>
    /\ lastEvent' = [op |-> "rejected"]
    /\ UNCHANGED <<pagesRequested, isDialogOpen, activePageIndex,
                   comicSession, comicHistory, blobCount, revoked>>

\* variant: setIsGenerating(false) at the end of the try block, no finally
GenerateRejected_NoFinally ==
  \E call \in BagToSet(calls) :
    /\ calls' = calls (-) SetToBag({call})
    /\ lastEvent' = [op |-> "rejected"]
    /\ UNCHANGED <<storyIdea, pagesRequested, isGenerating, isDialogOpen,
                   activePageIndex, comicSession, comicHistory, blobCount,
                   revoked>>

\* generateComic rejected: catch (console.error), then finally
GenerateRejected ==
  \E call \in BagToSet(calls) :
    /\ calls' = calls (-) SetToBag({call})
    /\ isGenerating' = FALSE
    /\ lastEvent' = [op |-> "rejected"]
    /\ UNCHANGED <<storyIdea, pagesRequested, isDialogOpen, activePageIndex,
                   comicSession, comicHistory, blobCount, revoked>>

\* what the page shows: the Dialog (line 365), its content (367), the
\* prev/next buttons (389) and the page-preview section (256)
DialogShown == isDialogOpen /\ comicSession # Null

PageShown ==
  /\ DialogShown
  /\ activePageIndex \in 0..(Len(comicSession.pages) - 1)

PreviewsShown == comicSession # Null /\ Len(comicSession.pages) > 0

\* variant: opening the viewer also empties the prompt input
openViewer_ClearsInput(index) ==
  /\ comicSession # Null
  /\ activePageIndex' = EffectPageIndex(comicSession, index)
  /\ isDialogOpen' = EffectDialogOpen(comicSession, TRUE)
  /\ storyIdea' = <<>>
  /\ lastEvent' = [op |-> "other"]
  /\ UNCHANGED <<pagesRequested, isGenerating, comicSession,
                 comicHistory, calls, blobCount, revoked>>

\* openViewer(index), lines 146-150, and the effect its state change runs
openViewer(index) ==
  /\ comicSession # Null
  /\ activePageIndex' = EffectPageIndex(comicSession, index)
  /\ isDialogOpen' = EffectDialogOpen(comicSession, TRUE)
  /\ lastEvent' = [op |-> "other"]
  /\ UNCHANGED <<storyIdea, pagesRequested, isGenerating, comicSession,
                 comicHistory, calls, blobCount, revoked>>

\* the session card: onClick={() => openViewer(0)}
ClickSessionCard ==
  /\ comicSession # Null
  /\ openViewer(0)

\* a page preview: onClick={() => openViewer(page.pageNumber - 1)}
ClickPagePreview ==
  /\ PreviewsShown
  /\ \E i \in DOMAIN comicSession.pages :
       openViewer(comicSession.pages[i].pageNumber - 1)

\* variant: prev without the wraparound at index 0
NextPageIndex_PrevNoWrap(prev, total, direction) ==
  IF direction = "prev"
  THEN prev - 1
  ELSE (IF prev = total - 1 THEN 0 ELSE prev + 1)

\* variant: next without the wraparound at the last index
NextPageIndex_NextNoWrap(prev, total, direction) ==
  IF direction = "prev"
  THEN (IF prev = 0 THEN total - 1 ELSE prev - 1)
  ELSE prev + 1

\* the updater handleViewerChange passes to setActivePageIndex
NextPageIndex(prev, total, direction) ==
  IF direction = "prev"
  THEN (IF prev = 0 THEN total - 1 ELSE prev - 1)
  ELSE (IF prev = total - 1 THEN 0 ELSE prev + 1)

\* handleViewerChange(direction), from the prev/next buttons, shown with a
\* page on display and more than one page
handleViewerChange(direction) ==
  /\ PageShown
  /\ Len(comicSession.pages) > 1
  /\ activePageIndex' =
       EffectPageIndex(comicSession,
         NextPageIndex(activePageIndex, Len(comicSession.pages), direction))
  /\ lastEvent' = [op |-> direction, from |-> activePageIndex]
  /\ UNCHANGED <<storyIdea, pagesRequested, isGenerating, isDialogOpen,
                 comicSession, comicHistory, calls, blobCount, revoked>>

ClickPrev == handleViewerChange("prev")

ClickNext == handleViewerChange("next")

\* Dialog onOpenChange(false): escape, overlay click or the close button
CloseDialog ==
  /\ DialogShown
  /\ isDialogOpen' = FALSE
  /\ lastEvent' = [op |-> "other"]
  /\ UNCHANGED <<storyIdea, pagesRequested, isGenerating, activePageIndex,
                 comicSession, comicHistory, calls, blobCount, revoked>>

\* handleDownload, lines 127-144: the export's own object URL is created,
\* clicked and revoked inside the handler
ExportUrl == [scheme |-> "blob", id |-> 0]

\* variant: the handler only checks that a session exists
handleDownload_EmptyAllowed ==
  /\ comicSession # Null
  /\ lastEvent' = [ op |-> "download",
                    story |-> comicSession.storyIdea,
                    pages |-> comicSession.pages,
                    download |-> DownloadName(comicSession.storyIdea),
                    href |-> ExportUrl,
                    created |-> <<ExportUrl>>,
                    released |-> <<ExportUrl>> ]
  /\ UNCHANGED <<storyIdea, pagesRequested, isGenerating, isDialogOpen,
                 activePageIndex, comicSession, comicHistory, calls,
                 blobCount, revoked>>

\* variant: the export's object URL is never revoked
handleDownload_NoRevoke ==
  /\ PreviewsShown
  /\ lastEvent' = [ op |-> "download",
                    story |-> comicSession.storyIdea,
                    pages |-> comicSession.pages,
                    download |-> DownloadName(comicSession.storyIdea),
                    href |-> ExportUrl,
                    created |-> <<ExportUrl>>,
                    released |-> <<>> ]
  /\ UNCHANGED <<storyIdea, pagesRequested, isGenerating, isDialogOpen,
                 activePageIndex, comicSession, comicHistory, calls,
                 blobCount, revoked>>

handleDownload ==
  /\ PreviewsShown
  /\ lastEvent' = [ op |-> "download",
                    story |-> comicSession.storyIdea,
                    pages |-> comicSession.pages,
                    download |-> DownloadName(comicSession.storyIdea),
                    href |-> ExportUrl,
                    created |-> <<ExportUrl>>,
                    released |-> <<ExportUrl>> ]
  /\ UNCHANGED <<storyIdea, pagesRequested, isGenerating, isDialogOpen,
                 activePageIndex, comicSession, comicHistory, calls,
                 blobCount, revoked>>

\* another consumer of the app context clears the session:
\* setComicSession(null); the effect then closes the dialog
ClearComicSession ==
  /\ comicSession # Null
  /\ comicSession' = Null
  /\ isDialogOpen' = EffectDialogOpen(Null, isDialogOpen)
  /\ activePageIndex' = EffectPageIndex(Null, activePageIndex)
  /\ lastEvent' = [op |-> "cleared", wasOpen |-> isDialogOpen]
  /\ UNCHANGED <<storyIdea, pagesRequested, isGenerating, comicHistory,
                 calls, blobCount, revoked>>

Next ==
  \/ SetStoryIdea
  \/ PickExample
  \/ SetPagesRequested
  \/ ClickGenerate
  \/ ClickQuickPrompt
  \/ GenerateResolved
  \/ GenerateRejected
  \/ ClickSessionCard
  \/ ClickPagePreview
  \/ ClickPrev
  \/ ClickNext
  \/ CloseDialog
  \/ handleDownload
  \/ ClearComicSession

Spec == Init /\ [][Next]_vars

\* every generateComic call settles
FairSpec == Spec /\ WF_vars(GenerateResolved \/ GenerateRejected)

\* ================================================================ claims
PageCount == IF comicSession = Null THEN 0 ELSE Len(comicSession.pages)

\* C1: at most one generateComic call is in flight at any time (a trigger
\* made while busy starts no second call).
C1_AtMostOneInFlight == BagCardinality(calls) <= 1

\* C2: every blob URL of a session superseded by a successful generation has
\* been released exactly once, no URL is released twice, and no URL of the
\* installed session has been released.
C2_ReleasedExactlyOnce ==
  /\ \A b \in BlobIds(comicSession) : CopiesIn(b, revoked) = 0
  /\ \A b \in BagToSet(revoked) : CopiesIn(b, revoked) = 1
  /\ lastEvent.op = "resolved" =>
       \A b \in BlobIds(lastEvent.replaced) : CopiesIn(b, revoked) = 1

\* C3: a failed generateComic call leaves the session, its resources, the
\* history, the prompt input, the page-count selection and the viewer as
\* they were, and clears the busy flag.
C3_FailureKeepsState ==
  [][ lastEvent'.op = "rejected" =>
        /\ comicSession' = comicSession
        /\ revoked' = revoked
        /\ blobCount' = blobCount
        /\ comicHistory' = comicHistory
        /\ storyIdea' = storyIdea
        /\ pagesRequested' = pagesRequested
        /\ activePageIndex' = activePageIndex
        /\ isDialogOpen' = isDialogOpen
        /\ isGenerating' = FALSE ]_vars

\* a call failed with a session holding object URLs installed, text in the
\* prompt input and the viewer index off 0
C3_Witness ==
  /\ lastEvent.op = "rejected"
  /\ BlobIds(comicSession) # {}
  /\ storyIdea # <<>>
  /\ activePageIndex > 0
  /\ ~isGenerating

\* C4: whenever the busy flag is set it is eventually cleared, given that
\* every generateComic call settles.
C4_NoLockout == isGenerating ~> ~isGenerating

\* the "Generate comic" button is enabled again after a failed call
C4_Witness ==
  /\ lastEvent.op = "rejected"
  /\ calls = EmptyBag
  /\ ~(isGenerating \/ Trim(storyIdea) = <<>>)

\* C5: with a session of at least one page installed, activePageIndex is in
\* 0 .. pages.length - 1.
C5_IndexInRange ==
  PageCount >= 1 => activePageIndex \in 0..(PageCount - 1)

\* a generation replaced a session by one with fewer pages than the index
\* the viewer stood at
C5_Witness ==
  /\ lastEvent.op = "resolved"
  /\ lastEvent.replaced # Null
  /\ PageCount >= 1
  /\ lastEvent.wasIndex > PageCount - 1

\* C6: the export of prompt "Tom & Jerry!!" is named tom-jerry.json, and the
\* export of a prompt without alphanumeric characters is named comic.json.
C6_ExportName ==
  lastEvent.op = "download" =>
    /\ lastEvent.story = TomAndJerry =>
         lastEvent.download =
           <<"t","o","m","-","j","e","r","r","y",".","j","s","o","n">>
    /\ (\A i \in DOMAIN lastEvent.story : ~IsAlnum(lastEvent.story[i])) =>
         lastEvent.download = <<"c","o","m","i","c",".","j","s","o","n">>

\* k applications of the navigation updater
RECURSIVE Navigate(_, _, _, _)
Navigate(i, n, direction, k) ==
  IF k = 0 THEN i
  ELSE Navigate(NextPageIndex(i, n, direction), n, direction, k - 1)

\* C7: with n >= 1 pages and index i in 0 .. n-1, next yields (i+1) mod n and
\* prev yields (i-1) mod n, n applications of either return to i, a single
\* page leaves the index unchanged, and a prev/next click moves the viewer so.
C7_CyclicNavigation ==
  [][ LET n == PageCount
          i == activePageIndex
      IN  (n >= 1 /\ i \in 0..(n - 1)) =>
            /\ NextPageIndex(i, n, "next") = (i + 1) % n
            /\ NextPageIndex(i, n, "prev") = (i + n - 1) % n
            /\ Navigate(i, n, "next", n) = i
            /\ Navigate(i, n, "prev", n) = i
            /\ n = 1 => /\ NextPageIndex(i, n, "next") = i
                        /\ NextPageIndex(i, n, "prev") = i
            /\ lastEvent'.op = "next" => activePageIndex' = (i + 1) % n
            /\ lastEvent'.op = "prev" => activePageIndex' = (i + n - 1) % n
    ]_vars

\* next was clicked on the last page and the viewer shows the first
C7_Witness ==
  /\ lastEvent.op = "next"
  /\ PageCount >= 2
  /\ lastEvent.from = PageCount - 1
  /\ activePageIndex = 0
  /\ isDialogOpen

\* C8: when the session changes with the viewer open, a null session closes
\* the viewer, and a session with fewer pages than the index allows resets
\* the index to 0 and leaves the viewer open.
C8_SessionChangeWhileOpen ==
  [][ (DialogShown /\ comicSession' # comicSession) =>
        /\ comicSession' = Null => ~isDialogOpen'
        /\ (comicSession' # Null
              /\ activePageIndex > Len(comicSession'.pages) - 1) =>
             (activePageIndex' = 0 /\ isDialogOpen') ]_vars

\* a generation completed with the viewer open on a page the new session
\* does not have
C8_Witness ==
  /\ lastEvent.op = "resolved"
  /\ lastEvent.wasOpen
  /\ lastEvent.wasIndex > PageCount - 1
  /\ activePageIndex = 0
  /\ isDialogOpen

\* the session was cleared with the viewer open
C8_WitnessCleared ==
  /\ lastEvent.op = "cleared"
  /\ lastEvent.wasOpen
  /\ ~isDialogOpen

\* C9: a successful generation triggered with prompt p and count c installs
\* a session with storyIdea trim(p), pagesRequested c and the returned pages,
\* empties the prompt input, sets the viewer index to 0 and appends exactly
\* one history entry, trim(p).
C9_SuccessInstalls ==
  [][ lastEvent'.op = "resolved" =>
        LET call == lastEvent'.call
        IN  /\ BagIn(call, calls)
            /\ comicSession'.storyIdea = Trim(call.idea)
            /\ comicSession'.pagesRequested = call.count
            /\ comicSession'.pages = lastEvent'.comic
            /\ Len(comicSession'.pages) = Len(lastEvent'.comic)
            /\ storyIdea' = <<>>
            /\ activePageIndex' = 0
            /\ comicHistory' = Append(comicHistory, Trim(call.idea)) ]_vars

\* a typed prompt with surrounding blanks was generated with count 1 and the
\* generator returned more pages than requested
C9_Witness ==
  /\ lastEvent.op = "resolved"
  /\ lastEvent.call.idea # comicSession.storyIdea
  /\ comicSession.pagesRequested = 1
  /\ Len(comicSession.pages) > comicSession.pagesRequested
  /\ storyIdea = <<>>

\* C10: no replacement session is installed while the session it replaced
\* still holds an unreleased object URL.
C10_ReleasedBeforeReplaced ==
  lastEvent.op = "resolved" =>
    \A b \in BlobIds(lastEvent.replaced) : CopiesIn(b, revoked) >= 1

C12_OpenOnlyWithPages == isDialogOpen => PageCount >= 1

\* C13: with no session or no pages an export does nothing; every export
\* that runs has a session of at least one page, creates its download, and
\* its payload's story and pages are the session's storyIdea and its page
\* sequence in order.
C13_ExportExactlyWithPages ==
  /\ PageCount = 0 => ~ENABLED handleDownload
  /\ lastEvent.op = "download" =>
       /\ PageCount >= 1
       /\ Len(lastEvent.created) = 1
       /\ lastEvent.story = comicSession.storyIdea
       /\ lastEvent.pages = comicSession.pages

\* a session of several pages was exported
C13_Witness ==
  /\ lastEvent.op = "download"
  /\ PageCount >= 2
  /\ lastEvent.pages = comicSession.pages

\* C14: an export creates one object URL, points the download link at it and
\* revokes that URL once before it returns; it revokes no page URL and leaves
\* the object-URL table of the pages as it was.
C14_ExportReleasesItsUrl ==
  [][ lastEvent'.op = "download" =>
        /\ Len(lastEvent'.created) = 1
        /\ lastEvent'.href = lastEvent'.created[1]
        /\ lastEvent'.released = lastEvent'.created
        /\ \A i \in DOMAIN comicSession.pages :
             comicSession.pages[i].imageUrl # lastEvent'.created[1]
        /\ revoked' = revoked
        /\ blobCount' = blobCount ]_vars

\* a session whose pages carry object URLs was exported and none of them
\* is revoked
C14_Witness ==
  /\ lastEvent.op = "download"
  /\ BlobIds(comicSession) # {}
  /\ \A b \in BlobIds(comicSession) : ~BagIn(b, revoked)
  /\ lastEvent.released = <<lastEvent.href>>

\* a non-empty string that trim() leaves as it is
IsTrimmedNonEmpty(str) == str # <<>> /\ Trim(str) = str

C16_BusyFlagAccurate == isGenerating <=> BagCardinality(calls) > 0

\* C17: a call carries the trimmed prompt and the page count of the moment
\* it is triggered, edits made while it is in flight do not touch them, and a
\* successful call installs them, appends that story to the history and
\* empties the prompt input, whatever the input and the selection then are.
C17_CapturedAtTrigger ==
  [][ /\ \A c \in BagToSet(calls') :
           CopiesIn(c, calls') > CopiesIn(c, calls) =>
             /\ c.idea = storyIdea \/ c.idea \in Range(FirstN(exampleStories, 2))
             /\ c.story = Trim(c.idea)
             /\ c.count = pagesRequested
      /\ lastEvent'.op \notin {"resolved", "rejected"} =>
           \A c \in BagToSet(calls) : CopiesIn(c, calls') >= CopiesIn(c, calls)
      /\ lastEvent'.op = "resolved" =>
           /\ comicSession'.storyIdea = lastEvent'.call.story
           /\ comicSession'.pagesRequested = lastEvent'.call.count
           /\ comicHistory'[Len(comicHistory')] = lastEvent'.call.story
           /\ storyIdea' = <<>>
           /\ pagesRequested' = pagesRequested ]_vars

\* a call made with one page count succeeded after the selection was changed
C17_Witness ==
  /\ lastEvent.op = "resolved"
  /\ lastEvent.call.count # pagesRequested
  /\ comicSession.pagesRequested = lastEvent.call.count
  /\ comicSession.storyIdea = lastEvent.call.story

\* a step of openViewer, close, prev/next or export, told by what it changes
ViewerOrExportStep ==
  \/ lastEvent'.op \in {"prev", "next", "download"}
  \/ /\ lastEvent'.op = "other"
     /\ isDialogOpen' # isDialogOpen \/ activePageIndex' # activePageIndex

\* C18: openViewer, prev/next, close and export leave the session and its
\* pages, the history, the prompt input, the page-count selection and the
\* busy flag unchanged, and with no session installed none of them does
\* anything.
C18_ViewerExportFrame ==
  [][ /\ ViewerOrExportStep =>
           /\ comicSession' = comicSession
           /\ comicHistory' = comicHistory
           /\ storyIdea' = storyIdea
           /\ pagesRequested' = pagesRequested
           /\ isGenerating' = isGenerating
      /\ comicSession = Null =>
           ~ENABLED (ClickSessionCard \/ ClickPagePreview \/ ClickPrev
                       \/ ClickNext \/ CloseDialog \/ handleDownload) ]_vars

\* prev was clicked with a call in flight, text in the prompt input, two
\* pages selected and an entry in the history
C18_Witness ==
  /\ lastEvent.op = "prev"
  /\ isGenerating
  /\ storyIdea # <<>>
  /\ pagesRequested = 2
  /\ comicHistory # <<>>

====
